---- MODULE Spec2Model ----
(***************************************************************************)
(* A model of the bouncing-ball simulation (CircleSimulation.ts) and of    *)
(* the React component that drives it (App: play/pause, reset, manual      *)
(* recording, batch recording, pointer events on the canvas).              *)
(*                                                                         *)
(* Everything runs on one event loop: every action below is one task of    *)
(* that loop (a click handler, a timer callback, a requestAnimationFrame   *)
(* callback, the task a MediaRecorder queues when it is stopped) and runs  *)
(* to completion.                                                          *)
(*                                                                         *)
(* Numbers: the code computes in IEEE doubles.  The model computes in      *)
(* fixed point: lengths and velocities in 1/Scale of a pixel, factors      *)
(* (decay, growth, boost, restitution) in 1/Den.                           *)
(***************************************************************************)
EXTENDS Integers, Sequences, FiniteSets, TLC

\* ------------------------------------------------------------------ bounds
\* MediaRecorder objects constructed in one run of the model.
MaxRecorders == 2
\* Largest batch count the user enters (the input permits 1..100).
MaxBatchCount == 2
\* requestAnimationFrame requests issued in one run of the model.
MaxFrames == 3
\* The last reading of performance.now(), in milliseconds.
MaxNow == 3

\* --------------------------------------------------------------- constants
Scale == 10
Den == 10000
WIDTH == 1080
HEIGHT == 1920
INITIAL_BALL_RADIUS == 5
MOTION_BLUR_STEPS == 5
CIRCLE_RADIUS == (((IF WIDTH < HEIGHT THEN WIDTH ELSE HEIGHT) * Scale) \div 2) - 125 * Scale
\* A growth ceiling that lets the ball fill the circle.
MaxRadiusFillsCircle == CIRCLE_RADIUS

MAX_BALL_RADIUS == CIRCLE_RADIUS - 10 * Scale
circleCenter == <<(WIDTH * Scale) \div 2, (HEIGHT * Scale) \div 2>>
Restitution == (95 * Den) \div 100
MinVelocity == Scale

VARIABLES
  \* CircleSimulation: capture
  mediaRecorder,        \* 0 (null) or the index in recState of the stored recorder
  recState,             \* every MediaRecorder constructed so far: its .state
  chunks,               \* this.chunks: the data of each buffered chunk
  onRecordingComplete,  \* NoCallback or the callback stored by startRecording
  stopQueue,            \* recorders whose stop task is queued on the event loop
  \* CircleSimulation: driver and physics
  running, animationId, isDragging, startTime, elapsedTime, simulationColor,
  ballRadius, ballCenter, ballVelocity, collisionPoints, previousPositions,
  GRAVITY, VELOCITY_INCREASE_FACTOR, VELOCITY_DECAY, BALL_GROWTH_RATE,
  \* the host
  now,                  \* performance.now(), in milliseconds
  frames,               \* ids of the pending requestAnimationFrame callbacks
  nextFrame,            \* the id the next requestAnimationFrame returns
  \* App
  isRunning, isRecording, isRecordingBatch, batchRecordingCount,
  recordingCount, recordings,
  batchN,               \* batchRecordingCount as the running batch's closure sees it
  batchPc,              \* where recordNextSimulation is suspended
  \* history (what happened, for the properties)
  sessionCb,            \* per recorder: the callback its startRecording passed
  delivered,            \* the completion-callback invocations made so far
  zipped,               \* the list handed to downloadZip last
  batchSessions,        \* the recorders the batch in progress (or the last one) started
  batchLog,             \* the steps of the batch in progress (or of the last one)
  batchOutcome,         \* "none", "running", "bundled" or "aborted"
  collisions,           \* onCollision() calls since the last reset
  updated,              \* update() calls in the last call into the simulation
  drew,                 \* who called draw() in that call: "no", "animate", "drag"
  events,               \* update(), onCollision() and draw() of that call, in order
  dragStartedIn,        \* "running" or "stopped" as the drag in progress found the
                        \* driver, "none" when no drag is in progress
  lastOp                \* the handler that ran last

captureVars == <<mediaRecorder, recState, chunks, onRecordingComplete, stopQueue,
                 sessionCb>>
simVars == <<running, animationId, isDragging, startTime, elapsedTime,
             simulationColor, ballRadius, ballCenter, ballVelocity, collisionPoints,
             previousPositions, GRAVITY, VELOCITY_INCREASE_FACTOR, VELOCITY_DECAY,
             BALL_GROWTH_RATE, frames, nextFrame, collisions, updated, drew, events,
             dragStartedIn>>
batchVars == <<isRecordingBatch, batchRecordingCount, recordingCount, batchN,
               batchPc, zipped, batchLog, batchOutcome, batchSessions>>
vars == <<captureVars, simVars, batchVars, now, isRunning, isRecording, recordings,
          delivered, lastOp>>

NoCallback == [kind |-> "none", owner |-> 0]

\* ------------------------------------------------------------ the simulation
\* The simulation object (with the host's frame queue and what the last handler
\* did to it) as one record, so that its methods are operators on it.
Sim == [running |-> running, animationId |-> animationId, isDragging |-> isDragging,
        startTime |-> startTime, elapsedTime |-> elapsedTime,
        simulationColor |-> simulationColor, ballRadius |-> ballRadius,
        ballCenter |-> ballCenter, ballVelocity |-> ballVelocity,
        collisionPoints |-> collisionPoints,
        previousPositions |-> previousPositions,
        GRAVITY |-> GRAVITY, VELOCITY_INCREASE_FACTOR |-> VELOCITY_INCREASE_FACTOR,
        VELOCITY_DECAY |-> VELOCITY_DECAY, BALL_GROWTH_RATE |-> BALL_GROWTH_RATE,
        frames |-> frames, nextFrame |-> nextFrame, collisions |-> collisions,
        updated |-> 0, drew |-> "no", events |-> <<>>,
        dragStartedIn |-> dragStartedIn]

SetSim(s) ==
  /\ running' = s.running
  /\ animationId' = s.animationId
  /\ isDragging' = s.isDragging
  /\ startTime' = s.startTime
  /\ elapsedTime' = s.elapsedTime
  /\ simulationColor' = s.simulationColor
  /\ ballRadius' = s.ballRadius
  /\ ballCenter' = s.ballCenter
  /\ ballVelocity' = s.ballVelocity
  /\ collisionPoints' = s.collisionPoints
  /\ previousPositions' = s.previousPositions
  /\ GRAVITY' = s.GRAVITY
  /\ VELOCITY_INCREASE_FACTOR' = s.VELOCITY_INCREASE_FACTOR
  /\ VELOCITY_DECAY' = s.VELOCITY_DECAY
  /\ BALL_GROWTH_RATE' = s.BALL_GROWTH_RATE
  /\ frames' = s.frames
  /\ nextFrame' = s.nextFrame
  /\ collisions' = s.collisions
  /\ updated' = s.updated
  /\ drew' = s.drew
  /\ events' = s.events
  /\ dragStartedIn' = s.dragStartedIn

\* ---- numbers
\* a / b rounded to the nearest integer (b > 0).
RoundDiv(a, b) == (2 * a + b) \div (2 * b)

\* a * f for a factor f in 1/Den.
Times(a, f) == RoundDiv(a * f, Den)

RECURSIVE SqrtSearch(_, _, _)
SqrtSearch(n, lo, hi) ==
  IF lo >= hi THEN lo
  ELSE LET mid == (lo + hi + 1) \div 2
       IN IF mid * mid <= n THEN SqrtSearch(n, mid, hi) ELSE SqrtSearch(n, lo, mid - 1)

\* Math.sqrt, rounded down.
Sqrt(n) == SqrtSearch(n, 0, 46340)

\* NaN, which 0 * Infinity yields; both components of a vector become NaN together.
NaN == 0 - 2^30
NaNVec == <<NaN, NaN>>

\* generateRandomColor(): a random hue, here one of two.
Hues == {0, 1}

\* A reset() that keeps the motion trail.
resetKeepsTrail(s, t, hue) ==
  [s EXCEPT !.ballRadius = INITIAL_BALL_RADIUS * Scale,
            !.ballCenter = <<(WIDTH * Scale) \div 2, (HEIGHT * Scale * 10) \div 27>>,
            !.ballVelocity = <<(8 * Scale) \div 10, (8 * Scale) \div 10>>,
            !.collisionPoints = <<>>,
            !.startTime = t,
            !.elapsedTime = 0,
            !.simulationColor = hue,
            !.collisions = 0]

\* reset(): t is performance.now(), hue what generateRandomColor draws.
reset(s, t, hue) ==
  [s EXCEPT !.ballRadius = INITIAL_BALL_RADIUS * Scale,
            !.ballCenter = <<(WIDTH * Scale) \div 2, (HEIGHT * Scale * 10) \div 27>>,
            !.ballVelocity = <<(8 * Scale) \div 10, (8 * Scale) \div 10>>,
            !.collisionPoints = <<>>,
            !.previousPositions = <<>>,
            !.startTime = t,
            !.elapsedTime = 0,
            !.simulationColor = hue,
            !.collisions = 0]

\* A bounce that lets the radius grow past the maximum.
collideUncapped(s, dx, dy, distance) ==
  [s EXCEPT !.ballRadius = Times(s.ballRadius, s.BALL_GROWTH_RATE),
            !.collisionPoints = Append(@, circleCenter),
            !.collisions = @ + 1]

\* A bounce that leaves the ball where the step put it.
collideNoCorrection(s, dx, dy, distance) ==
  [s EXCEPT !.collisionPoints = Append(@, circleCenter), !.collisions = @ + 1]

\* A bounce that raises no collision event.
collideSilent(s, dx, dy, distance) ==
  [s EXCEPT !.collisionPoints = Append(@, circleCenter)]

\* update(), the branch taken on a collision: s holds the integrated position,
\* (dx, dy) is its offset from the circle's centre and distance its length.
\* cos(atan2(dy, dx)) is dx / distance and sin(atan2(dy, dx)) is dy / distance.
collide(s, dx, dy, distance) ==
  IF distance = 0
  THEN \* 0 / 0 is NaN, and so is everything computed from the normal
       [s EXCEPT !.ballVelocity = NaNVec,
                 !.ballRadius = IF @ < MAX_BALL_RADIUS
                                THEN (IF Times(@, s.BALL_GROWTH_RATE) < MAX_BALL_RADIUS
                                      THEN Times(@, s.BALL_GROWTH_RATE)
                                      ELSE MAX_BALL_RADIUS)
                                ELSE @,
                 !.collisionPoints = Append(@, NaNVec),
                 !.ballCenter = NaNVec,
                 !.collisions = @ + 1,
                 !.events = Append(@, "collision")]
  ELSE
  LET nx == RoundDiv(dx * Den, distance)
      ny == RoundDiv(dy * Den, distance)
      v == s.ballVelocity
      dot == RoundDiv(v[1] * nx + v[2] * ny, Den)
      rx == Times(v[1] - RoundDiv(2 * dot * nx, Den), Restitution)
      ry == Times(v[2] - RoundDiv(2 * dot * ny, Den), Restitution)
      grown == Times(s.ballRadius, s.BALL_GROWTH_RATE)
      radius == IF s.ballRadius < MAX_BALL_RADIUS
                THEN (IF grown < MAX_BALL_RADIUS THEN grown ELSE MAX_BALL_RADIUS)
                ELSE s.ballRadius
      bx == Times(rx, s.VELOCITY_INCREASE_FACTOR)
      by == Times(ry, s.VELOCITY_INCREASE_FACTOR)
      sq == bx * bx + by * by
      \* currentVelocity in 1/100 of a velocity unit
      cur == Sqrt(sq * 10000)
      vel == IF sq < MinVelocity * MinVelocity
             THEN (IF sq = 0
                   THEN NaNVec       \* scale is Infinity, and 0 * Infinity is NaN
                   ELSE <<RoundDiv(bx * MinVelocity * 100, cur),
                          RoundDiv(by * MinVelocity * 100, cur)>>)
             ELSE <<bx, by>>
      mark == <<circleCenter[1] + RoundDiv(CIRCLE_RADIUS * nx, Den),
                circleCenter[2] + RoundDiv(CIRCLE_RADIUS * ny, Den)>>
      center == <<circleCenter[1] + RoundDiv((CIRCLE_RADIUS - radius) * nx, Den),
                  circleCenter[2] + RoundDiv((CIRCLE_RADIUS - radius) * ny, Den)>>
  IN [s EXCEPT !.ballVelocity = vel,
               !.ballRadius = radius,
               !.collisionPoints = Append(@, mark),
               !.ballCenter = center,
               !.collisions = @ + 1,
               !.events = Append(@, "collision")]

\* A trail that never evicts.
trailUnbounded(positions, center) == Append(positions, center)

\* update(), the trail: a copy of the centre is pushed, and the oldest entry is
\* shifted out when there are more than MOTION_BLUR_STEPS.
trailAfter(positions, center) ==
  LET trail == Append(positions, center)
  IN IF Len(trail) > MOTION_BLUR_STEPS THEN Tail(trail) ELSE trail

\* update() at performance.now() = t.  elapsedTime is kept in milliseconds, so
\* that (now - startTime) / 1000 seconds is now - startTime.
update(s, t) ==
  LET s1 == [s EXCEPT !.elapsedTime = t - s.startTime,
                      !.previousPositions = trailAfter(@, s.ballCenter),
                      !.updated = @ + 1,
                      !.events = Append(@, "update")]
  IN IF s.ballVelocity = NaNVec \/ s.ballCenter = NaNVec
     THEN \* NaN spreads to the position; NaN >= x is false: no collision
          [s1 EXCEPT !.ballVelocity = NaNVec, !.ballCenter = NaNVec]
     ELSE LET vx == Times(s.ballVelocity[1], s.VELOCITY_DECAY)
              vy == Times(s.ballVelocity[2] + s.GRAVITY, s.VELOCITY_DECAY)
              cx == s.ballCenter[1] + vx
              cy == s.ballCenter[2] + vy
              dx == cx - circleCenter[1]
              dy == cy - circleCenter[2]
              q == dx * dx + dy * dy
              limit == CIRCLE_RADIUS - s.ballRadius
              s2 == [s1 EXCEPT !.ballVelocity = <<vx, vy>>, !.ballCenter = <<cx, cy>>]
          IN IF limit <= 0 \/ q >= limit * limit
             THEN collide(s2, dx, dy, Sqrt(q))
             ELSE s2

\* A frame callback that does not look at the running flag.
animateUnguarded(s, t) ==
  LET u == update(s, t)
  IN [u EXCEPT !.drew = "animate",
               !.events = Append(@, "draw"),
               !.animationId = u.nextFrame,
               !.frames = @ \cup {u.nextFrame},
               !.nextFrame = @ + 1]

\* A frame callback that draws before it updates.
animateDrawsFirst(s, t) ==
  IF ~s.running THEN s
  ELSE LET u == update([s EXCEPT !.events = Append(@, "draw")], t)
       IN [u EXCEPT !.drew = "animate",
                    !.animationId = u.nextFrame,
                    !.frames = @ \cup {u.nextFrame},
                    !.nextFrame = @ + 1]

\* animate(): the frame callback.  requestAnimationFrame queues a new callback.
animate(s, t) ==
  IF ~s.running THEN s
  ELSE LET u == update(s, t)
       IN [u EXCEPT !.drew = "animate",
                    !.events = Append(@, "draw"),
                    !.animationId = u.nextFrame,
                    !.frames = @ \cup {u.nextFrame},
                    !.nextFrame = @ + 1]

\* A start() that restarts the clock.
startRestartsClock(s, t) ==
  animate([s EXCEPT !.startTime = IF ~s.running THEN t ELSE @, !.running = TRUE], t)

start(s, t) ==
  LET s1 == IF ~s.running THEN [s EXCEPT !.startTime = t - s.elapsedTime] ELSE s
  IN animate([s1 EXCEPT !.running = TRUE], t)

\* stop(): cancelAnimationFrame removes the callback with that id, if pending.
stop(s) == [s EXCEPT !.running = FALSE, !.frames = @ \ {s.animationId}]

\* A press that grabs the ball wherever it lands.
handleMouseDownAnywhere(s, x, y) == stop([s EXCEPT !.isDragging = TRUE])

\* handleMouseDown(x, y); a comparison with NaN is false.
handleMouseDown(s, x, y) ==
  LET dx == x - s.ballCenter[1]
      dy == y - s.ballCenter[2]
  IN IF s.ballCenter # NaNVec /\ dx * dx + dy * dy <= s.ballRadius * s.ballRadius
     THEN stop([s EXCEPT !.isDragging = TRUE,
                         !.dragStartedIn = IF s.isDragging THEN @
                                           ELSE IF s.running THEN "running"
                                           ELSE "stopped"])
     ELSE s

\* A move that leaves the velocity alone.
handleMouseMoveKeepsVelocity(s, x, y) ==
  IF s.isDragging THEN [s EXCEPT !.ballCenter = <<x, y>>, !.drew = "drag"] ELSE s

handleMouseMove(s, x, y) ==
  IF s.isDragging
  THEN [s EXCEPT !.ballCenter = <<x, y>>, !.ballVelocity = <<0, 0>>, !.drew = "drag",
                 !.events = Append(@, "draw")]
  ELSE s

\* A release that ends the drag and does not resume.
handleMouseUpNoResume(s, t) ==
  IF s.isDragging THEN [s EXCEPT !.isDragging = FALSE] ELSE s

handleMouseUp(s, t) ==
  IF s.isDragging
  THEN start([s EXCEPT !.isDragging = FALSE, !.dragStartedIn = "none"], t)
  ELSE s

\* The simulation as the constructor leaves it (the class's field initialisers and
\* reset()).
Constructed(hue) ==
  reset([running |-> FALSE, animationId |-> 0, isDragging |-> FALSE,
         startTime |-> 0, elapsedTime |-> 0, simulationColor |-> hue,
         ballRadius |-> 0, ballCenter |-> <<0, 0>>, ballVelocity |-> <<0, 0>>,
         collisionPoints |-> <<>>, previousPositions |-> <<>>,
         GRAVITY |-> (4 * Scale) \div 10,
         VELOCITY_INCREASE_FACTOR |-> (102 * Den) \div 100,
         VELOCITY_DECAY |-> (9995 * Den) \div 10000,
         BALL_GROWTH_RATE |-> (1015 * Den) \div 1000,
         frames |-> {}, nextFrame |-> 1, collisions |-> 0,
         updated |-> 0, drew |-> "no", events |-> <<>>,
         dragStartedIn |-> "none"], 0, hue)

\* ------------------------------------------------------------------ capture
Capture == [mediaRecorder |-> mediaRecorder, recState |-> recState,
            chunks |-> chunks, onRecordingComplete |-> onRecordingComplete,
            stopQueue |-> stopQueue, sessionCb |-> sessionCb]

SetCapture(c) ==
  /\ mediaRecorder' = c.mediaRecorder
  /\ recState' = c.recState
  /\ chunks' = c.chunks
  /\ onRecordingComplete' = c.onRecordingComplete
  /\ stopQueue' = c.stopQueue
  /\ sessionCb' = c.sessionCb

\* setupRecording(): constructs a MediaRecorder (state "inactive") and stores it.
\* When the constructor throws, nothing has been assigned.
setupRecording(c) ==
  [c EXCEPT !.recState = Append(c.recState, "inactive"),
            !.sessionCb = Append(c.sessionCb, NoCallback),
            !.mediaRecorder = Len(c.recState) + 1]

\* A constructor that throws after the recorder has been stored.
setupRecordingHalfBuilt(c) == setupRecording(c)

\* setupRecording() when the MediaRecorder constructor throws: the assignment to
\* this.mediaRecorder and the two handler assignments after it are not reached.
setupRecordingFailed(c) == c

\* startRecording() when setupRecording() throws: the exception leaves
\* startRecording at its first statement and reaches the caller.
startRecordingFailed(c) == setupRecordingFailed(c)

\* startRecording(onComplete): kind is what the callback does with the blob.  The
\* caller's closure is a fresh one on every call; owner names the recorder its call
\* constructed.
startRecording(c, kind) ==
  LET s == setupRecording(c)
      r == s.mediaRecorder
      cb == [kind |-> kind, owner |-> r]
  IN IF r # 0 /\ s.recState[r] = "inactive"
     THEN [s EXCEPT !.chunks = <<>>,
                    !.onRecordingComplete = cb,
                    !.recState[r] = "recording",
                    !.sessionCb[r] = cb]
     ELSE s

\* stopRecording(): MediaRecorder.stop() sets the state to "inactive" and queues
\* the task that fires dataavailable and then stop.
stopRecording(c) ==
  IF c.mediaRecorder # 0 /\ c.recState[c.mediaRecorder] = "recording"
  THEN [c EXCEPT !.recState[c.mediaRecorder] = "inactive",
                 !.stopQueue = Append(c.stopQueue, c.mediaRecorder)]
  ELSE c

\* ondataavailable of recorder r: a chunk of size 0 is dropped.
ondataavailable(c, r, nonEmpty) ==
  IF nonEmpty THEN [c EXCEPT !.chunks = Append(c.chunks, r)] ELSE c

\* The blob recorder r's onstop builds (by: which onstop built it), and the
\* callback it invokes.
finalBlob(c, r) == [by |-> r, data |-> c.chunks]

onstopCallback(c) == c.onRecordingComplete

Free == MaxRecorders - Len(recState)

Reserved ==
  CASE batchPc = "idle" -> 0
    [] batchPc = "duration" -> batchN - recordingCount - 1
    [] batchPc = "pause" -> batchN - recordingCount

\* ------------------------------------------------------------------- App
\* The closures of one render see the state of that render; every handler below
\* runs after the render that followed the previous one.

\* What the simulation and the host are after the mount effect: the constructor,
\* then simulation.start(), which runs animate() once.
Mounted(hue) == start(Constructed(hue), 0)

\* The state in which the simulation is s and App is as its first render and its
\* mount effect leave it.
InitWith(s) ==
  /\ running = s.running
  /\ animationId = s.animationId
  /\ isDragging = s.isDragging
  /\ startTime = s.startTime
  /\ elapsedTime = s.elapsedTime
  /\ simulationColor = s.simulationColor
  /\ ballRadius = s.ballRadius
  /\ ballCenter = s.ballCenter
  /\ ballVelocity = s.ballVelocity
  /\ collisionPoints = s.collisionPoints
  /\ previousPositions = s.previousPositions
  /\ GRAVITY = s.GRAVITY
  /\ VELOCITY_INCREASE_FACTOR = s.VELOCITY_INCREASE_FACTOR
  /\ VELOCITY_DECAY = s.VELOCITY_DECAY
  /\ BALL_GROWTH_RATE = s.BALL_GROWTH_RATE
  /\ frames = s.frames
  /\ nextFrame = s.nextFrame
  /\ collisions = s.collisions
  /\ updated = s.updated
  /\ drew = s.drew
  /\ events = s.events
  /\ dragStartedIn = s.dragStartedIn
  /\ mediaRecorder = 0
  /\ recState = <<>>
  /\ chunks = <<>>
  /\ onRecordingComplete = NoCallback
  /\ stopQueue = <<>>
  /\ sessionCb = <<>>
  /\ now = 0
  /\ isRunning = TRUE
  /\ isRecording = FALSE
  /\ isRecordingBatch = FALSE
  /\ batchRecordingCount = 1
  /\ recordingCount = 0
  /\ recordings = <<>>
  /\ batchN = 1
  /\ batchPc = "idle"
  /\ delivered = {}
  /\ zipped = <<>>
  /\ batchSessions = <<>>
  /\ batchLog = <<>>
  /\ batchOutcome = "none"
  /\ lastOp = "mount"

Init == \E hue \in Hues : InitWith(Mounted(hue))

\* ---- capture: the record button, the batch, the recorder's stop task

\* A record button that also pauses the simulation when it starts a session.
HandleRecordingPausing(ok) ==
  /\ ~isRecording
  /\ Free > Reserved
  /\ ok
  /\ SetCapture(startRecording(Capture, "download"))
  /\ SetSim(stop(Sim))
  /\ isRecording' = TRUE
  /\ lastOp' = "record"
  /\ UNCHANGED <<batchVars, now, isRunning, recordings, delivered>>

\* handleRecording.  ok: the MediaRecorder constructor accepts the stream and the
\* mime type; when it throws, setupRecording has assigned nothing and the catch
\* block logs the error.
HandleRecording(ok) ==
  /\ IF ~isRecording
     THEN /\ Free > Reserved
          /\ IF ok
             THEN /\ SetCapture(startRecording(Capture, "download"))
                  /\ isRecording' = TRUE
                  /\ lastOp' = "record"
             ELSE /\ SetCapture(startRecordingFailed(Capture))
                  /\ UNCHANGED isRecording
                  /\ lastOp' = "recordFailed"
     ELSE /\ ok
          /\ SetCapture(stopRecording(Capture))
          /\ isRecording' = FALSE
          /\ lastOp' = "recordStop"
  /\ UNCHANGED <<simVars, batchVars, now, isRunning, recordings, delivered>>

\* The task MediaRecorder.stop() queued: dataavailable, then stop.  onstop builds
\* the blob from this.chunks, hands it to this.onRecordingComplete when that is
\* set, and empties this.chunks.  The download callback saves the blob, the batch's
\* callback pushes it on recordingsRef.current.
OnStop(nonEmpty) ==
  /\ stopQueue # <<>>
  /\ LET r == Head(stopQueue)
         c == ondataavailable([Capture EXCEPT !.stopQueue = Tail(@)], r, nonEmpty)
         blob == finalBlob(c, r)
         cb == onstopCallback(c)
     IN /\ SetCapture([c EXCEPT !.chunks = <<>>])
        /\ delivered' = IF cb.kind # "none"
                        THEN delivered \cup {[session |-> r, cb |-> cb, blob |-> blob]}
                        ELSE delivered
        /\ recordings' = IF cb.kind = "accumulate"
                         THEN Append(recordings, blob)
                         ELSE recordings
  /\ lastOp' = "onstop"
  /\ UNCHANGED <<simVars, batchVars, now, isRunning, isRecording>>

\* The batch count input.
SetBatchRecordingCount(n) ==
  /\ n # batchRecordingCount
  /\ batchRecordingCount' = n
  /\ lastOp' = "setBatchCount"
  /\ UNCHANGED <<captureVars, simVars, isRecordingBatch, recordingCount, batchN,
                 batchPc, zipped, batchLog, batchOutcome, batchSessions, now,
                 isRunning, isRecording, recordings, delivered>>

\* A loop test that is off by one.
batchDoneLate(count, n) == count > n

\* recordNextSimulation's loop test.
batchDone(count, n) == count >= n

\* A finished batch that stays in batch mode.
batchModeStuck == TRUE

\* isRecordingBatch as the branch that bundles leaves it.
batchModeAfterZip == FALSE

\* A catch block that does not leave batch mode.
batchModeKept == TRUE

\* recordingCountRef.current++
nextCount(count) == count + 1

\* isRecordingBatch as the catch block leaves it.
batchModeAfterCatch == FALSE

\* recordNextSimulation, from its call to its first await or its return: count and
\* recs are recordingCountRef.current and recordingsRef.current, n the closure's
\* batchRecordingCount, log and sess the batch's steps and recorders so far.
recordNextSimulation(count, recs, n, log, sess, ok, hue) ==
  IF batchDone(count, n)
  THEN /\ isRecordingBatch' = batchModeAfterZip
       /\ zipped' = recs
       /\ batchPc' = "idle"
       /\ batchOutcome' = "bundled"
       /\ batchLog' = Append(log, "zip")
       /\ batchSessions' = sess
       /\ UNCHANGED <<captureVars, simVars>>
  ELSE /\ SetSim(reset(Sim, now, hue))
       /\ UNCHANGED zipped
       /\ IF ok
          THEN /\ SetCapture(startRecording(Capture, "accumulate"))
               /\ isRecordingBatch' = TRUE
               /\ batchPc' = "duration"
               /\ batchOutcome' = "running"
               /\ batchLog' = log \o <<"reset", "start">>
               /\ batchSessions' = Append(sess, Len(recState) + 1)
          ELSE /\ SetCapture(startRecordingFailed(Capture))
               /\ isRecordingBatch' = batchModeAfterCatch
               /\ batchPc' = "idle"
               /\ batchOutcome' = "aborted"
               /\ batchLog' = log \o <<"reset", "throw">>
               /\ batchSessions' = sess

\* startBatchRecording: the Start Batch button.
StartBatchRecording(ok, hue) ==
  /\ ~isRecordingBatch
  /\ batchPc = "idle"
  /\ Free >= batchRecordingCount
  /\ recordingCount' = 0
  /\ recordings' = <<>>
  /\ batchN' = batchRecordingCount
  /\ recordNextSimulation(0, <<>>, batchRecordingCount, <<>>, <<>>, ok, hue)
  /\ lastOp' = "startBatch"
  /\ UNCHANGED <<batchRecordingCount, now, isRunning, isRecording, delivered>>

\* The recordingDuration timer fires: stopRecording, count++, and the pause timer
\* is set.
DurationTimer ==
  /\ batchPc = "duration"
  /\ SetCapture(stopRecording(Capture))
  /\ recordingCount' = nextCount(recordingCount)
  /\ batchPc' = "pause"
  /\ batchLog' = batchLog \o <<"wait", "stop", "inc">>
  /\ lastOp' = "durationTimer"
  /\ UNCHANGED <<simVars, isRecordingBatch, batchRecordingCount, batchN, zipped,
                 batchOutcome, batchSessions, now, isRunning, isRecording,
                 recordings, delivered>>

\* The one-second pause timer fires: recordNextSimulation again.
PauseTimer(ok, hue) ==
  /\ batchPc = "pause"
  /\ recordNextSimulation(recordingCount, recordings, batchN,
                          Append(batchLog, "pause"), batchSessions, ok, hue)
  /\ lastOp' = "pauseTimer"
  /\ UNCHANGED <<batchRecordingCount, recordingCount, batchN, now, isRunning,
                 isRecording, recordings, delivered>>

NextCapture ==
  \/ \E ok \in BOOLEAN : HandleRecording(ok)
  \/ \E nonEmpty \in BOOLEAN : OnStop(nonEmpty)
  \/ \E n \in 1 .. MaxBatchCount : SetBatchRecordingCount(n)
  \/ \E ok \in BOOLEAN, hue \in Hues : StartBatchRecording(ok, hue)
  \/ DurationTimer
  \/ \E ok \in BOOLEAN, hue \in Hues : PauseTimer(ok, hue)

\* The capture side of the program: the record button, the batch and the
\* recorders' stop tasks, in any order.
SpecCapture == Init /\ [][NextCapture]_vars

\* The same, with the timers of the batch firing once they are set.
FairCapture ==
  /\ SpecCapture
  /\ WF_vars(DurationTimer)
  /\ WF_vars(\E ok \in BOOLEAN, hue \in Hues : PauseTimer(ok, hue))

\* ---- driver: the frame loop, the buttons, the pointer

\* A requestAnimationFrame callback runs: animate.  The callback is gone from the
\* host's queue when it runs.
Frame(id) ==
  /\ id \in frames
  /\ running => nextFrame <= MaxFrames
  /\ SetSim(animate([Sim EXCEPT !.frames = @ \ {id}], now))
  /\ lastOp' = "frame"
  /\ UNCHANGED <<captureVars, batchVars, now, isRunning, isRecording, recordings,
                 delivered>>

\* handlePlayPause: the play/pause button.
HandlePlayPause ==
  /\ IF running
     THEN /\ SetSim(stop(Sim))
          /\ isRunning' = FALSE
     ELSE /\ nextFrame <= MaxFrames
          /\ SetSim(start(Sim, now))
          /\ isRunning' = TRUE
  /\ lastOp' = "playPause"
  /\ UNCHANGED <<captureVars, batchVars, now, isRecording, recordings, delivered>>

\* handleReset: the reset button.
HandleReset(hue) ==
  /\ SetSim(reset(Sim, now, hue))
  /\ lastOp' = "reset"
  /\ UNCHANGED <<captureVars, batchVars, now, isRunning, isRecording, recordings,
                 delivered>>

\* The canvas's onMouseDown at canvas point (x, y).
CanvasMouseDown(x, y) ==
  /\ SetSim(handleMouseDown(Sim, x, y))
  /\ lastOp' = "mouseDown"
  /\ UNCHANGED <<captureVars, batchVars, now, isRunning, isRecording, recordings,
                 delivered>>

\* The canvas's onMouseMove at canvas point (x, y).
CanvasMouseMove(x, y) ==
  /\ SetSim(handleMouseMove(Sim, x, y))
  /\ lastOp' = "mouseMove"
  /\ UNCHANGED <<captureVars, batchVars, now, isRunning, isRecording, recordings,
                 delivered>>

\* The canvas's onMouseUp and onMouseLeave: both are handleMouseUp.
CanvasMouseUp ==
  /\ isDragging => nextFrame <= MaxFrames
  /\ SetSim(handleMouseUp(Sim, now))
  /\ lastOp' = "mouseUp"
  /\ UNCHANGED <<captureVars, batchVars, now, isRunning, isRecording, recordings,
                 delivered>>

setGravity(s, value) == [s EXCEPT !.GRAVITY = value]

\* handleGravityChange: the gravity slider (0 to 1).
HandleGravityChange(value) ==
  /\ value # GRAVITY
  /\ SetSim(setGravity(Sim, value))
  /\ lastOp' = "setGravity"
  /\ UNCHANGED <<captureVars, batchVars, now, isRunning, isRecording, recordings,
                 delivered>>

\* Where the pointer goes down: on the ball's centre, on its rim, just off its
\* rim, on the circle's centre.
DownPoints ==
  IF ballCenter = NaNVec THEN {circleCenter}
  ELSE {ballCenter, <<ballCenter[1] + ballRadius, ballCenter[2]>>,
        <<ballCenter[1] + ballRadius + 1, ballCenter[2]>>, circleCenter}

\* Where the pointer moves to: the circle's centre, a point on the circle, a
\* point outside it.
MovePoints ==
  {circleCenter,
   <<circleCenter[1] + CIRCLE_RADIUS, circleCenter[2]>>,
   <<circleCenter[1] + 300 * Scale, circleCenter[2] + 300 * Scale>>}

\* The gravity slider at 0 and back at 0.4.
GravityValues == {0, (4 * Scale) \div 10}

NextDriver ==
  \/ \E id \in frames : Frame(id)
  \/ HandlePlayPause
  \/ \E hue \in Hues : HandleReset(hue)
  \/ \E pt \in DownPoints : CanvasMouseDown(pt[1], pt[2])
  \/ \E pt \in MovePoints : CanvasMouseMove(pt[1], pt[2])
  \/ CanvasMouseUp
  \/ \E value \in GravityValues : HandleGravityChange(value)

\* The driver side of the program: the frame loop, the play/pause and reset
\* buttons, the pointer on the canvas and the gravity slider, in any order, all
\* within one reading of the clock.
SpecDriver == Init /\ [][NextDriver]_vars

\* ---- physics: ticks from the middle of a run
setBallGrowthRate(s, value) == [s EXCEPT !.BALL_GROWTH_RATE = Den + value]

\* handleBallGrowthChange: the growth slider (0 to 0.2).
HandleBallGrowthChange(value) ==
  /\ Den + value # BALL_GROWTH_RATE
  /\ SetSim(setBallGrowthRate(Sim, value))
  /\ lastOp' = "setBallGrowth"
  /\ UNCHANGED <<captureVars, batchVars, now, isRunning, isRecording, recordings,
                 delivered>>

\* The growth slider at 0, at 0.015 and at 0.2.
GrowthValues == {0, (15 * Den) \div 1000, (2 * Den) \div 10}

\* Radii the ball has in a run: the initial one, one in the middle, one that the
\* next growth takes to the maximum, the maximum.
RunRadii ==
  {INITIAL_BALL_RADIUS * Scale, 100 * Scale, MAX_BALL_RADIUS - 2 * Scale,
   MAX_BALL_RADIUS}

\* Offsets of the ball from the circle's centre when its radius is radius: none,
\* and one pixel short of touching the circle, to the right and at the bottom.
RunOffsets(radius) ==
  {<<0, 0>>, <<CIRCLE_RADIUS - radius - Scale, 0>>, <<0, CIRCLE_RADIUS - radius - Scale>>}

\* Velocities of the ball in a run: at rest (after a drag without gravity), the
\* initial one, a fast one up and to the right, a slow one.
RunVelocities ==
  {<<0, 0>>, <<(8 * Scale) \div 10, (8 * Scale) \div 10>>, <<6 * Scale, 0 - 2 * Scale>>,
   <<0 - 2, 1>>}

\* The collision marks of a run that has reached radius: none at the initial
\* radius, else the marks of the 25 bounces that the largest growth rate needs
\* from the initial radius to the maximum.
RunMarks(radius) ==
  IF radius = INITIAL_BALL_RADIUS * Scale THEN <<>>
  ELSE [i \in 1 .. 25 |-> <<circleCenter[1] + CIRCLE_RADIUS, circleCenter[2]>>]

\* The simulation in the middle of a run: Running with one frame callback pending,
\* as start() leaves it, and the trail holding the centres of the steps before.
MidRun(hue, radius, offset, velocity) ==
  LET center == <<circleCenter[1] + offset[1], circleCenter[2] + offset[2]>>
  IN [Mounted(hue) EXCEPT
        !.ballRadius = radius,
        !.ballCenter = center,
        !.ballVelocity = velocity,
        !.collisionPoints = RunMarks(radius),
        !.collisions = Len(RunMarks(radius)),
        !.previousPositions =
           [i \in 1 .. MOTION_BLUR_STEPS |->
              <<center[1] - (MOTION_BLUR_STEPS + 1 - i) * velocity[1],
                center[2] - (MOTION_BLUR_STEPS + 1 - i) * velocity[2]>>]]

InitPhysics ==
  \E radius \in RunRadii, velocity \in RunVelocities :
    \E offset \in RunOffsets(radius) :
      InitWith(MidRun(0, radius, offset, velocity))

NextPhysics ==
  \/ \E id \in frames : Frame(id)
  \/ \E hue \in Hues : HandleReset(hue)
  \/ \E value \in GravityValues : HandleGravityChange(value)
  \/ \E value \in GrowthValues : HandleBallGrowthChange(value)

\* The physics from the middle of a run: ticks of the frame loop, reset, and the
\* gravity and growth sliders.
SpecPhysics == InitPhysics /\ [][NextPhysics]_vars

\* ---- the clock
\* performance.now() moves on between two tasks of the event loop.
TimePasses ==
  /\ now < MaxNow
  /\ now' = now + 1
  /\ lastOp' = "clock"
  /\ UNCHANGED <<captureVars, simVars, batchVars, isRunning, isRecording, recordings,
                 delivered>>

NextClock ==
  \/ TimePasses
  \/ \E id \in frames : Frame(id)
  \/ HandlePlayPause
  \/ \E hue \in Hues : HandleReset(hue)
  \/ CanvasMouseDown(ballCenter[1], ballCenter[2])
  \/ CanvasMouseUp

\* The driver with the clock running: the frame loop, play/pause, reset, and a
\* press on the ball and its release.
SpecClock == Init /\ [][NextClock]_vars

\* ---- a recording session while the frame loop runs
NextSession ==
  \/ \E ok \in BOOLEAN : HandleRecording(ok)
  \/ \E nonEmpty \in BOOLEAN : OnStop(nonEmpty)
  \/ \E id \in frames : Frame(id)
  \/ HandlePlayPause
  \/ \E hue \in Hues : HandleReset(hue)
  \/ TimePasses

\* Manual recording sessions side by side with the driver: the record button and
\* the recorders' stop tasks, the frame loop, play/pause, reset and the clock.
SpecSession == Init /\ [][NextSession]_vars

\* ------------------------------------------------------- capture properties
Recorders == 1 .. Len(recState)

Active == {r \in Recorders : recState[r] = "recording"}

\* The stored recorder is recording.
SessionActive == mediaRecorder # 0 /\ recState[mediaRecorder] = "recording"

\* startRecording ran in this step and returned.
StartRecordingCalled ==
  \/ lastOp' = "record"
  \/ lastOp' \in {"startBatch", "pauseTimer"} /\ batchLog'[Len(batchLog')] = "start"

\* Recorder r was stopped and its stop task has run.
Finalized(r) ==
  /\ recState[r] = "inactive"
  /\ \A i \in 1 .. Len(stopQueue) : stopQueue[i] # r

\* The invocations of the callback that was passed when recorder r was started.
InvocationsOf(r) == {d \in delivered : d.cb.owner = r}

\* startRecording ran in this step and threw.
StartRecordingThrew ==
  \/ lastOp' = "recordFailed"
  \/ lastOp' \in {"startBatch", "pauseTimer"} /\ batchLog'[Len(batchLog')] = "throw"

\* C1: in every reachable state at most one recorder of this simulation is in the
\* state "recording".
C1_AtMostOneActiveSession == Cardinality(Active) <= 1

\* C2: a startRecording call made while the stored recorder is recording changes
\* neither the stored recorder, nor any recorder's state, nor the buffered chunks,
\* nor the stored completion callback.
C2_StartWhileActiveIsNoOp ==
  [][(SessionActive /\ StartRecordingCalled)
       => UNCHANGED <<mediaRecorder, recState, chunks, onRecordingComplete>>]_vars

\* C3: the callback passed at the start of a session is invoked at most once, and
\* exactly once when the session was stopped and its stop task has run; that
\* invocation is made by the session's own stop task with a blob holding only the
\* session's chunks.
C3_CallbackExactlyOncePerSession ==
  \A r \in Recorders :
    /\ Cardinality(InvocationsOf(r)) <= 1
    /\ Finalized(r) => Cardinality(InvocationsOf(r)) = 1
    /\ \A d \in InvocationsOf(r) :
         /\ d.session = r
         /\ d.blob.by = r
         /\ \A i \in 1 .. Len(d.blob.data) : d.blob.data[i] = r

\* C4: when a batch in which no iteration failed has handed its list to
\* downloadZip, that list held exactly N blobs, the i-th built by the stop task of
\* the recorder the i-th run started.
C4_BundleHoldsOneArtifactPerRun ==
  batchOutcome = "bundled" =>
    /\ Len(zipped) = batchN
    /\ Len(batchSessions) = batchN
    /\ \A i \in 1 .. batchN : zipped[i].by = batchSessions[i]

Cycle == <<"reset", "start", "wait", "stop", "inc", "pause">>

CountOf(log, step) == Cardinality({i \in 1 .. Len(log) : log[i] = step})

\* C5: the steps of a batch follow the cycle reset, start, wait, stop, increment,
\* pause, over and over; a throw takes the place of a start and a hand-over to
\* downloadZip the place of a reset, and either ends the log; there are never more
\* than N resets or starts; and a batch that handed its list over made exactly N
\* full cycles first.
C5_BatchRunsExactlyNCycles ==
  /\ \A i \in 1 .. Len(batchLog) :
       LET at == ((i - 1) % Len(Cycle)) + 1
       IN \/ batchLog[i] = Cycle[at]
          \/ batchLog[i] = "throw" /\ Cycle[at] = "start" /\ i = Len(batchLog)
          \/ batchLog[i] = "zip" /\ Cycle[at] = "reset" /\ i = Len(batchLog)
  /\ CountOf(batchLog, "reset") <= batchN
  /\ CountOf(batchLog, "start") <= batchN
  /\ batchOutcome = "bundled" =>
       /\ Len(batchLog) = batchN * Len(Cycle) + 1
       /\ CountOf(batchLog, "start") = batchN
       /\ CountOf(batchLog, "stop") = batchN
  /\ batchOutcome = "running" <=> batchPc # "idle"

\* A batch of two runs has completed.
C5_Witness == batchOutcome = "bundled" /\ batchN = 2 /\ lastOp = "pauseTimer"

\* C6: once an iteration of a batch has thrown, the batch is out of batch mode, no
\* timer of it is pending, the throw is the last step it made (no reset, start or
\* stop follows) and it never handed a list to downloadZip.
C6_FailureAbortsBatch ==
  batchOutcome = "aborted" =>
    /\ ~isRecordingBatch
    /\ batchPc = "idle"
    /\ batchLog[Len(batchLog)] = "throw"
    /\ CountOf(batchLog, "zip") = 0

\* A batch failed in its second run, with the first run's artifact collected.
C6_Witness == batchOutcome = "aborted" /\ Len(recordings) = 1 /\ Len(batchLog) > 2

\* C7: with the timers firing, a batch that is in batch mode leaves it.
C7_BatchLeavesBatchMode == isRecordingBatch ~> ~isRecordingBatch

\* A batch has run to its end and batch mode is off.
C7_Witness == batchOutcome = "bundled" /\ ~isRecordingBatch /\ batchN = 1

\* -------------------------------------------------------- driver properties
\* C8: whenever the driver is Stopped, the last call into the simulation ran no
\* update() and no draw() of the frame loop: stop() itself, a frame callback that
\* was pending when stop() ran, and everything else until the next start().
C8_NoFrameWhileStopped == ~running => (updated = 0 /\ drew # "animate")

\* A frame callback that stop() did not cancel has run while Stopped.
C8_Witness == ~running /\ lastOp = "frame" /\ updated = 0

\* C9: at most one frame callback is pending.
C9_AtMostOnePendingFrame == Cardinality(frames) <= 1

\* The pointer went down on the ball and has just moved, and nothing has started
\* the driver since.
DragAtPointer == isDragging /\ lastOp = "mouseMove" /\ ~running

\* C10: a release that follows a move of the dragged ball leaves the centre where
\* the move put it, with velocity (0, 0), no update() having run, the driver
\* Running and a frame callback pending.
C10_ReleaseLeavesBallAtPointer ==
  [][(DragAtPointer /\ lastOp' = "mouseUp")
       => /\ ballCenter' = ballCenter
          /\ ballVelocity' = <<0, 0>>
          /\ updated' = 0
          /\ running'
          /\ frames' # {}]_vars

\* C10, amended: the release finds the ball where the move put it, with velocity
\* (0, 0), and runs update() exactly once before it returns: when that update
\* detects no collision the velocity is (0, GRAVITY * VELOCITY_DECAY) and the
\* centre has moved by it; the drag is over, the driver Running and a frame
\* callback pending.
C10_ReleaseRunsOneUpdate ==
  [][(DragAtPointer /\ lastOp' = "mouseUp")
       => /\ ballCenter \in MovePoints
          /\ ballVelocity = <<0, 0>>
          /\ updated' = 1
          /\ collisions' \in {collisions, collisions + 1}
          /\ collisions' = collisions =>
               /\ ballVelocity' = <<0, Times(GRAVITY, VELOCITY_DECAY)>>
               /\ ballCenter' = <<ballCenter[1], ballCenter[2] + ballVelocity'[2]>>
          /\ ~isDragging'
          /\ running'
          /\ animationId' \in frames']_vars

\* The ball was dragged to the circle's centre and released under gravity.
C10_Witness ==
  /\ lastOp = "mouseUp"
  /\ updated = 1
  /\ running
  /\ GRAVITY > 0
  /\ ballVelocity = <<0, Times(GRAVITY, VELOCITY_DECAY)>>
  /\ ballCenter = <<circleCenter[1], circleCenter[2] + ballVelocity[2]>>

\* --------------------------------------------------------- clock properties
\* start() ran in this step and found the driver Stopped.
Resumed == ~running /\ running'

\* C11: elapsedTime never decreases in a step that is not a reset; startTime is
\* changed only by reset() and by a start() that finds the driver Stopped; such a
\* start() sets startTime to now - elapsedTime, so that the tick it runs leaves
\* elapsedTime as the last tick before the stop left it; and every tick of the
\* frame loop sets elapsedTime to now - startTime, which is that value plus the
\* time since the start().
C11_ClockResumesFromOffset ==
  [][/\ lastOp' # "reset" => elapsedTime' >= elapsedTime
     /\ startTime' # startTime => (lastOp' = "reset" \/ Resumed)
     /\ Resumed => /\ startTime' = now - elapsedTime
                   /\ updated' = 1
                   /\ elapsedTime' = elapsedTime
     /\ (lastOp' = "frame" /\ updated' = 1)
          => /\ startTime' = startTime
             /\ elapsedTime' = now - startTime]_vars

\* The driver has been resumed, some time after the tick that left a positive
\* elapsed time.
C11_Witness ==
  /\ lastOp = "playPause"
  /\ running
  /\ updated = 1
  /\ elapsedTime > 0
  /\ startTime > 0
  /\ startTime = now - elapsedTime

\* --------------------------------------------------------- reset properties
\* The physics state reset() is to leave.
InitialPhysics(radius, center, velocity, trail, marks, elapsed) ==
  /\ radius = INITIAL_BALL_RADIUS * Scale
  /\ center = <<(WIDTH * Scale) \div 2, (HEIGHT * Scale * 10) \div 27>>
  /\ velocity = <<(8 * Scale) \div 10, (8 * Scale) \div 10>>
  /\ trail = <<>>
  /\ marks = <<>>
  /\ elapsed = 0

\* C12: whatever the state before it, the reset button leaves the initial radius,
\* centre and velocity, an empty trail, no collision marks and elapsed time 0; a
\* reset that follows a reset with no tick in between changes none of them.
C12_ResetIsIdempotent ==
  [][lastOp' = "reset"
       => /\ InitialPhysics(ballRadius', ballCenter', ballVelocity',
                            previousPositions', collisionPoints', elapsedTime')
          /\ lastOp = "reset"
               => UNCHANGED <<ballRadius, ballCenter, ballVelocity, previousPositions,
                              collisionPoints, elapsedTime>>]_vars

\* A reset in the middle of a drag, after the frame loop has run its ticks.
C12_Witness ==
  /\ lastOp = "reset"
  /\ isDragging
  /\ nextFrame > MaxFrames
  /\ InitialPhysics(ballRadius, ballCenter, ballVelocity, previousPositions,
                    collisionPoints, elapsedTime)

\* ------------------------------------- capture and simulation side by side
\* The fields of the simulation that its physics and its driver own, and the
\* host's frame queue.
simState == <<running, animationId, isDragging, startTime, elapsedTime,
              simulationColor, ballRadius, ballCenter, ballVelocity, collisionPoints,
              previousPositions, GRAVITY, VELOCITY_INCREASE_FACTOR, VELOCITY_DECAY,
              BALL_GROWTH_RATE, frames, nextFrame, collisions>>

\* C13: a step of the record button (a start, a failed start, a stop) or of a
\* recorder's stop task changes no field of the physics or of the driver and no
\* pending frame callback; and while the driver is Running its next frame callback
\* is pending, whether or not a recorder is recording.
C13_CaptureLeavesSimulationAlone ==
  [][/\ lastOp' \in {"record", "recordFailed", "recordStop", "onstop"}
          => UNCHANGED simState
     /\ (Active' # {} /\ running') => animationId' \in frames']_vars

\* A tick of the frame loop has run while a recorder was recording.
C13_Witness ==
  /\ lastOp = "frame"
  /\ updated = 1
  /\ drew = "animate"
  /\ SessionActive
  /\ isRecording

\* ----------------------------------------------- a recorder that cannot be built
\* C14: a step in which startRecording throws constructs no recorder and changes
\* neither the stored recorder, nor any recorder's state, nor the buffered chunks,
\* nor the stored callback, queues no stop task and invokes no callback; when the
\* record button made the call, isRecording stays false; and every callback that
\* is ever invoked is the one a call that started a recorder passed.
C14_FailedStartStartsNothing ==
  [][/\ StartRecordingThrew
          => UNCHANGED <<mediaRecorder, recState, chunks, onRecordingComplete,
                         stopQueue, sessionCb, delivered>>
     /\ lastOp' = "recordFailed" => (~isRecording /\ ~isRecording')
     /\ \A d \in delivered' :
          /\ d.cb.owner \in 1 .. Len(recState')
          /\ d.cb = sessionCb'[d.cb.owner]]_vars

\* The record button failed to start a session while the batch's recorder was
\* recording.
C14_Witness ==
  /\ lastOp = "recordFailed"
  /\ ~isRecording
  /\ SessionActive
  /\ onRecordingComplete.kind = "accumulate"

\* ------------------------------------------------------- pointer properties
\* (x, y) lies within the ball's radius of its centre.
WithinBall(x, y) ==
  /\ ballCenter # NaNVec
  /\ (x - ballCenter[1]) * (x - ballCenter[1]) + (y - ballCenter[2]) * (y - ballCenter[2])
       <= ballRadius * ballRadius

\* C15: a press within the ball's radius of its centre leaves the drag active and
\* the driver Stopped; a press farther away, and a move or a release while no drag
\* is active, change no field of the simulation and no pending frame callback.
C15_PointerOffBallChangesNothing ==
  [][/\ lastOp' = "mouseDown"
          => \A pt \in DownPoints :
               CanvasMouseDown(pt[1], pt[2])
                 => IF WithinBall(pt[1], pt[2])
                    THEN isDragging' /\ ~running'
                    ELSE UNCHANGED simState
     /\ (~isDragging /\ lastOp' \in {"mouseMove", "mouseUp"}) => UNCHANGED simState]_vars

\* A press on the rim of the ball has stopped a Running driver and started a drag.
C15_Witness ==
  /\ lastOp = "mouseDown"
  /\ isDragging
  /\ ~running
  /\ isRunning
  /\ frames = {}

\* C16: a move to P while the drag is active leaves the centre at P and the
\* velocity (0, 0) and redraws; it runs no update(): radius, trail, marks, elapsed
\* time, the Running/Stopped state and the frame queue are as before and no
\* collision is raised, wherever P is.
C16_DragMoveDoesNotStep ==
  [][(isDragging /\ lastOp' = "mouseMove")
       => \A pt \in MovePoints :
            CanvasMouseMove(pt[1], pt[2])
              => /\ ballCenter' = pt
                 /\ ballVelocity' = <<0, 0>>
                 /\ drew' = "drag"
                 /\ updated' = 0
                 /\ UNCHANGED <<ballRadius, previousPositions, collisionPoints,
                                collisions, elapsedTime, startTime, running,
                                isDragging, animationId, frames, nextFrame>>]_vars

\* The dragged ball has been moved to a point outside the circle.
C16_Witness ==
  /\ lastOp = "mouseMove"
  /\ isDragging
  /\ ~running
  /\ drew = "drag"
  /\ ballVelocity = <<0, 0>>
  /\ ballCenter = <<circleCenter[1] + 300 * Scale, circleCenter[2] + 300 * Scale>>
  /\ collisions = 0

\* ------------------------------------------------------- physics properties
\* The speed of velocity v is at least the floor of 1.0, to within one unit of the
\* fixed-point resolution; NaN is not.
AtLeastFloor(v) ==
  /\ v # NaNVec
  /\ v[1] * v[1] + v[2] * v[2] >= (MinVelocity - 1) * (MinVelocity - 1)

\* C17: a step in which update() detects a collision leaves a speed of at least
\* 1.0 and a radius of at most MAX_BALL_RADIUS.
C17_BounceKeepsFloorAndCap ==
  [][collisions' = collisions + 1
       => /\ AtLeastFloor(ballVelocity')
          /\ ballRadius' <= MAX_BALL_RADIUS]_vars

\* The velocity and the centre that update() computes before its collision test.
IntegratedVelocity ==
  <<Times(ballVelocity[1], VELOCITY_DECAY),
    Times(ballVelocity[2] + GRAVITY, VELOCITY_DECAY)>>

IntegratedCenter ==
  <<ballCenter[1] + IntegratedVelocity[1], ballCenter[2] + IntegratedVelocity[2]>>

Offset(c) == <<c[1] - circleCenter[1], c[2] - circleCenter[2]>>

Norm2(v) == v[1] * v[1] + v[2] * v[2]

Abs(n) == IF n < 0 THEN 0 - n ELSE n

\* The integrated centre is at least CIRCLE_RADIUS - ballRadius from the circle's
\* centre; NaN is not.
Touches ==
  /\ ballCenter # NaNVec
  /\ ballVelocity # NaNVec
  /\ Norm2(Offset(IntegratedCenter))
       >= (CIRCLE_RADIUS - ballRadius) * (CIRCLE_RADIUS - ballRadius)

\* A fifth of a pixel: the rounding of the fixed-point arithmetic.
Tolerance == Scale \div 5

\* center is CIRCLE_RADIUS - radius from the circle's centre, to within Tolerance.
OnInnerCircle(center, radius) ==
  LET limit == CIRCLE_RADIUS - radius
  IN /\ limit > Tolerance
     /\ Norm2(Offset(center)) <= (limit + Tolerance) * (limit + Tolerance)
     /\ Norm2(Offset(center)) >= (limit - Tolerance) * (limit - Tolerance)

\* center lies in the direction of point from the circle's centre, to within
\* Tolerance at the circle.
SameAngle(center, point) ==
  LET c == Offset(center)
      d == Offset(point)
  IN /\ Abs(d[1] * c[2] - d[2] * c[1]) <= 2 * Tolerance * CIRCLE_RADIUS
     /\ d[1] * c[1] + d[2] * c[2] > 0

\* C18: a step in which update() detects a collision leaves the centre at
\* CIRCLE_RADIUS minus the grown radius from the circle's centre (so that distance
\* plus radius does not exceed CIRCLE_RADIUS), in the direction of the integrated
\* centre and of the mark it appended.
C18_BounceRepositionsOnInnerCircle ==
  [][collisions' = collisions + 1
       => /\ OnInnerCircle(ballCenter', ballRadius')
          /\ SameAngle(ballCenter', IntegratedCenter)
          /\ SameAngle(ballCenter', collisionPoints'[Len(collisionPoints')])]_vars

\* The first bounce of a run has grown the ball and put it back inside.
C18_Witness ==
  /\ lastOp = "frame"
  /\ collisions = 1
  /\ ballRadius > INITIAL_BALL_RADIUS * Scale
  /\ OnInnerCircle(ballCenter, ballRadius)

\* C19: in a step that is not a reset the radius does not decrease and does not
\* exceed MAX_BALL_RADIUS; it changes only when update() detects a collision, and
\* not at all once it is MAX_BALL_RADIUS.
C19_RadiusGrowsToCap ==
  [][lastOp' # "reset"
       => /\ ballRadius' >= ballRadius
          /\ ballRadius' <= MAX_BALL_RADIUS
          /\ collisions' = collisions => ballRadius' = ballRadius
          /\ ballRadius = MAX_BALL_RADIUS => ballRadius' = ballRadius]_vars

\* A bounce has taken the radius from two pixels under the maximum to the maximum:
\* the last centre of the trail is where the ball of that radius was before the
\* step.
C19_Witness ==
  /\ lastOp = "frame"
  /\ ballRadius = MAX_BALL_RADIUS
  /\ collisions = Len(RunMarks(MAX_BALL_RADIUS)) + 1
  /\ previousPositions[Len(previousPositions)]
       = <<circleCenter[1] + CIRCLE_RADIUS - (MAX_BALL_RADIUS - 2 * Scale) - Scale,
           circleCenter[2]>>

\* marks is what before was, with n marks appended.
Appended(before, marks, n) ==
  /\ Len(marks) = Len(before) + n
  /\ SubSeq(marks, 1, Len(before)) = before

\* C20: a step that runs update() appends one mark and raises one collision event
\* when the integrated centre touches the circle, and otherwise leaves radius and
\* marks alone and raises no event; a step that runs no update() and is not a
\* reset changes neither marks nor events; a reset empties the marks; and there
\* are as many marks as collision events since the last reset.
C20_OneMarkPerCollision ==
  [][/\ updated' = 1
          => IF Touches
             THEN /\ Appended(collisionPoints, collisionPoints', 1)
                  /\ collisions' = collisions + 1
             ELSE UNCHANGED <<ballRadius, collisionPoints, collisions>>
     /\ (updated' = 0 /\ lastOp' # "reset") => UNCHANGED <<collisionPoints, collisions>>
     /\ lastOp' = "reset" => collisionPoints' = <<>>
     /\ Len(collisionPoints') = collisions']_vars

\* The first run's marks are gone and the run after the reset has its first.
C20_Witness ==
  /\ lastOp = "frame"
  /\ updated = 1
  /\ collisions = 1
  /\ Len(collisionPoints) = 1
  /\ ballRadius = INITIAL_BALL_RADIUS * Scale
  /\ BALL_GROWTH_RATE = Den

\* The last n entries of sequence q, or all of q when it has fewer.
LastN(q, n) == IF Len(q) <= n THEN q ELSE SubSeq(q, Len(q) - n + 1, Len(q))

\* C21: the trail never holds more than MOTION_BLUR_STEPS (5) entries; a step that
\* runs update() leaves the last 5 entries of the old trail followed by the centre
\* the step found; a reset empties the trail; no other step changes it.
C21_TrailHoldsLastFiveCenters ==
  [][/\ Len(previousPositions') <= 5
     /\ updated' = 1
          => previousPositions' = LastN(Append(previousPositions, ballCenter), 5)
     /\ lastOp' = "reset" => previousPositions' = <<>>
     /\ (updated' = 0 /\ lastOp' # "reset") => UNCHANGED previousPositions]_vars

\* Two ticks have run on a full trail: each evicted the oldest entry and appended
\* the centre it found, and moved the ball on.
C21_Witness ==
  /\ lastOp = "frame"
  /\ updated = 1
  /\ nextFrame > 3
  /\ Len(previousPositions) = MOTION_BLUR_STEPS
  /\ previousPositions[MOTION_BLUR_STEPS] # ballCenter
  /\ previousPositions[MOTION_BLUR_STEPS - 1] # previousPositions[MOTION_BLUR_STEPS]

\* C22: a call into the simulation that runs update() runs it first and draw()
\* last, and raises the collision event in between exactly when the step appended
\* a collision mark: one event per mark, in the step that made the mark; a call
\* that runs no update() raises none.
C22_UpdateThenEventThenDraw ==
  [][/\ events' \in {<<>>, <<"draw">>, <<"update", "draw">>,
                     <<"update", "collision", "draw">>}
     /\ updated' = 1 <=> (events' # <<>> /\ events'[1] = "update")
     /\ events' = <<"update", "collision", "draw">>
          <=> Appended(collisionPoints, collisionPoints', 1)
     /\ events' = <<"update", "collision", "draw">> => collisions' = collisions + 1
     /\ lastOp' = "frame" => (drew' = "animate" <=> updated' = 1)]_vars

\* A tick of the frame loop has bounced.
C22_Witness ==
  /\ lastOp = "frame"
  /\ drew = "animate"
  /\ events = <<"update", "collision", "draw">>

\* C23: the release that ends a drag leaves the driver Running when the press
\* that began the drag found it Running, and Stopped when it found it Stopped.
C23_DragPreservesDriverState ==
  [][(isDragging /\ lastOp' = "mouseUp")
       => (running' <=> dragStartedIn = "running")]_vars

\* C24: every invocation of a completion callback hands the blob that the stop
\* task of a recorder built to the callback that was passed when that recorder
\* was started.
C24_ArtifactGoesToOwnCallback ==
  \A d \in delivered : d.cb.owner = d.session /\ d.cb = sessionCb[d.session]

\* C25: App's isRunning flag equals the simulation's running flag.
C25_IconMatchesDriver == isRunning = running

\* C26: the radius is at most MAX_BALL_RADIUS, so that the collision threshold
\* CIRCLE_RADIUS - ballRadius is at least 10 pixels; and in a step in which
\* update() detects a collision the integrated centre, from which the normal is
\* computed, is at least 10 pixels from the circle's centre, and neither the
\* centre nor the mark that the step leaves is NaN.
C26_NormalIsDefined ==
  [][/\ CIRCLE_RADIUS - ballRadius >= 10 * Scale
     /\ collisions' = collisions + 1
          => /\ Norm2(Offset(IntegratedCenter)) > 0
             /\ Norm2(Offset(IntegratedCenter)) >= (10 * Scale) * (10 * Scale)
             /\ ballCenter' # NaNVec
             /\ collisionPoints'[Len(collisionPoints')] # NaNVec]_vars

\* A ball of the largest radius, which touches the circle ten pixels from its
\* centre, has bounced.
C26_Witness ==
  /\ lastOp = "frame"
  /\ events = <<"update", "collision", "draw">>
  /\ ballRadius = MAX_BALL_RADIUS
  /\ Norm2(Offset(ballCenter)) <= (10 * Scale + Tolerance) * (10 * Scale + Tolerance)
  /\ Norm2(Offset(ballCenter)) > 0

====
